---- MODULE Spec2Model ----
(***************************************************************************)
(* State-machine model of ci/test-cases/run_tests.py: the artifact fetch   *)
(* (retrieve_ccdec), the load of the configuration document, the walk of   *)
(* the selected architecture's codec / test-suite / skip-vector tree and   *)
(* the external invocations issued by run_fluster.                         *)
(*                                                                         *)
(* Conventions.  An optional value (a dictionary key that may be absent,   *)
(* an environment variable that may be unset) is a sequence of length 0    *)
(* (absent) or 1 (present).  A Python dict is the sequence of its items    *)
(* in insertion order, each item a record [k, v].  subprocess.run is three *)
(* steps: the spawn, the child's termination (an environment step) and the *)
(* return to the caller.  The interpreter named by cmd[0] of run_fluster   *)
(* is the one executing the script, so its spawn is taken to succeed; the  *)
(* spawn of wget may fail.                                                 *)
(***************************************************************************)
EXTENDS Naturals, Integers, Sequences, FiniteSets, TLC

VARIABLES pc, args, dirExists, binExists, binExec, PATH, fetchErr, fetchCalls,
          installed, running, lastrc, config, upos, invoked, failedAt,
          uncaught, exitStatus

vars == <<pc, args, dirExists, binExists, binExec, PATH, fetchErr, fetchCalls,
          installed, running, lastrc, config, upos, invoked, failedAt,
          uncaught, exitStatus>>

(***************************************************************************)
(* pc          where the script is                                         *)
(* args        the parsed command line (lines 36-41)                       *)
(* dirExists   /opt/cros-codecs exists                                     *)
(* binExists   /opt/cros-codecs/ccdec exists                               *)
(* binExec     ... and carries the execute bits                            *)
(* PATH        os.environ['PATH'] as the list of its entries; <<>> if the  *)
(*             variable is not set, <<entries>> if it is                   *)
(* running     the child processes that have not terminated                *)
(* lastrc      the return code of the child last waited for, while the     *)
(*             function that ran it has not returned                       *)
(* config      the configuration file as the load step found it            *)
(* upos        how far the walk of lines 48-58 has come                    *)
(* invoked     the commands run_fluster has spawned, in order              *)
(* uncaught    the exception that ended the process, if one did            *)
(* exitStatus  <<>> while the process runs, then <<status>>                *)
(* History only: fetchErr (the exception the last call of retrieve_ccdec   *)
(* caught), fetchCalls (calls of retrieve_ccdec so far), installed (some   *)
(* call of retrieve_ccdec downloaded, chmod-ed and extended PATH without   *)
(* an error), failedAt (the first invocation that returned non-zero).      *)
(***************************************************************************)
fsVars == <<dirExists, binExists, binExec>>
walkVars == <<config, upos, invoked, failedAt>>

(***************************************************************************)
(* Bounds of the model.                                                    *)
(***************************************************************************)
\* test suites declared under the walked architecture, all codecs together
MaxUnits == 2
\* length of a skip-vectors list
MaxSkips == 2
\* calls of retrieve_ccdec in one process (SpecTwice only)
MaxFetchCalls == 2

CodecPool == <<"vp9", "av1">>
SuitePool == <<"A", "B", "C", "D", "E", "F">>
VectorPool == <<"v1", "v2", "v3", "v4">>

InstallDir == "/opt/cros-codecs"
ArchChoices == {"amd", "intel"}

(***************************************************************************)
(* Pure helpers.                                                           *)
(***************************************************************************)
RECURSIVE Flatten(_)
Flatten(ss) == IF ss = <<>> THEN <<>> ELSE Head(ss) \o Flatten(Tail(ss))

Range(s) == {s[i] : i \in 1..Len(s)}

Min(S) == CHOOSE x \in S : \A y \in S : x <= y

(***************************************************************************)
(* The configuration documents the load step may find.  A document is one  *)
(* of: no file, a file that is not well-formed YAML, an empty file (which  *)
(* yaml.safe_load turns into None), or a mapping from architecture to      *)
(*   [device_type : optional, codecs : optional list of codec dicts]       *)
(* with a codec dict  <<[k |-> codec, v |-> [test_suites : optional list   *)
(* of test-suite dicts]]>>  and a test-suite dict                          *)
(*   <<[k |-> suite, v |-> [skip_vectors : optional list of vectors]]>>.   *)
(* Names are fixed by position, so that an order is visible in the names.  *)
(***************************************************************************)
\* no skip-vectors key, or a list: empty, of one vector, or of MaxSkips vectors
SkipChoices == {<<>>} \cup {<<SubSeq(VectorPool, 1, n)>> : n \in {0, 1, MaxSkips}}

SuiteDicts(j) ==
    {<<[k |-> SuitePool[j], v |-> [skip_vectors |-> s]]>> : s \in SkipChoices}

RECURSIVE SuiteLists(_)
SuiteLists(n) ==
    IF n = 0 THEN {<<>>}
    ELSE {Append(l, d) : l \in SuiteLists(n - 1), d \in SuiteDicts(n)}

CodecDicts(i, n) ==
    {<<[k |-> CodecPool[i], v |-> [test_suites |-> <<l>>]]>> : l \in SuiteLists(n)}
    \cup (IF n = 0 THEN {<<[k |-> CodecPool[i], v |-> [test_suites |-> <<>>]]>>}
          ELSE {})

\* the lists of codec dicts number i..last that declare at most budget suites
RECURSIVE CodecLists(_, _, _)
CodecLists(i, last, budget) ==
    IF i > last THEN {<<>>}
    ELSE UNION {{<<c>> \o rest : c \in CodecDicts(i, n),
                                 rest \in CodecLists(i + 1, last, budget - n)}
                : n \in 0..budget}

IntelInfos ==
    {[device_type |-> d, codecs |-> cs] :
        d \in {<<>>, <<"asus-cx9400-volteer">>},
        cs \in {<<>>} \cup {<<l>> : l \in UNION {CodecLists(1, k, MaxUnits)
                                                 : k \in 0..Len(CodecPool)}}}

\* a complete entry: codec av1, suite Z, one skip vector
AmdValid ==
    [device_type |-> <<"asus-CM1400CXA-dalboz">>,
     codecs |-> <<<<  <<[k |-> "av1", v |-> [test_suites |->
                   <<<< <<[k |-> "Z", v |-> [skip_vectors |-> <<<<"v9">>>>]]>> >>>>]]>>  >>>>]

\* an entry with neither key
AmdBroken == [device_type |-> <<>>, codecs |-> <<>>]

Mappings ==
    {<<>>, <<[k |-> "amd", v |-> AmdValid]>>, <<[k |-> "amd", v |-> AmdBroken]>>}
    \cup {<<[k |-> "intel", v |-> i], [k |-> "amd", v |-> AmdValid]>> :
             i \in IntelInfos}
    \cup {<<[k |-> "amd", v |-> AmdBroken], [k |-> "intel", v |-> i]>> :
             i \in IntelInfos}

ConfigFiles ==
    {[kind |-> "missing", map |-> <<>>],
     [kind |-> "malformed", map |-> <<>>],
     [kind |-> "empty", map |-> <<>>]}
    \cup {[kind |-> "map", map |-> m] : m \in Mappings}

Unread == [kind |-> "unread", map |-> <<>>]

(***************************************************************************)
(* The walk of lines 48-58, as the sequence of things it does in order:    *)
(* a call of run_fluster, or the exception a failed lookup raises, which   *)
(* ends the walk.                                                          *)
(***************************************************************************)
RunEv(codec, test_suite, skips) ==
    [op |-> "run", exc |-> "", codec |-> codec, test_suite |-> test_suite,
     skips |-> skips]

RaiseEv(exc) ==
    [op |-> "raise", exc |-> exc, codec |-> "", test_suite |-> "", skips |-> <<>>]

\* a then b, unless a ended in an exception
Cat(a, b) == IF a # <<>> /\ a[Len(a)].op = "raise" THEN a ELSE a \o b

\* lines 55-57: for test_suite in ts
RECURSIVE TsDictEvents(_, _)
TsDictEvents(codec, ts) ==
    IF ts = <<>> THEN <<>>
    ELSE LET it == Head(ts)
         IN  Cat(IF it.v.skip_vectors = <<>>
                 THEN <<RaiseEv("KeyError")>>
                 ELSE <<RunEv(codec, it.k, it.v.skip_vectors[1])>>,
                 TsDictEvents(codec, Tail(ts)))

\* line 54: for ts in test_suites['test-suites']
RECURSIVE SuiteListEvents(_, _)
SuiteListEvents(codec, l) ==
    IF l = <<>> THEN <<>>
    ELSE Cat(TsDictEvents(codec, Head(l)), SuiteListEvents(codec, Tail(l)))

\* lines 53-54: for codec, test_suites in c.items()
RECURSIVE CodecDictEvents(_)
CodecDictEvents(c) ==
    IF c = <<>> THEN <<>>
    ELSE LET it == Head(c)
         IN  Cat(IF it.v.test_suites = <<>>
                 THEN <<RaiseEv("KeyError")>>
                 ELSE SuiteListEvents(it.k, it.v.test_suites[1]),
                 CodecDictEvents(Tail(c)))

\* the break of line 58 one loop too deep: the walk ends after the first codec
CodecListEventsBreak(l) ==
    IF l = <<>> THEN <<>> ELSE CodecDictEvents(Head(l))

\* line 52: for c in arch_info['codecs']
RECURSIVE CodecListEvents(_)
CodecListEvents(l) ==
    IF l = <<>> THEN <<>>
    ELSE Cat(CodecDictEvents(Head(l)), CodecListEvents(Tail(l)))

\* without the lookup of line 51, whose value nothing uses
ArchEventsNoDeviceType(arch_info) ==
    IF arch_info.codecs = <<>> THEN <<RaiseEv("KeyError")>>
    ELSE CodecListEvents(arch_info.codecs[1])

\* lines 51-52
ArchEvents(arch_info) ==
    IF arch_info.device_type = <<>> THEN <<RaiseEv("KeyError")>>
    ELSE IF arch_info.codecs = <<>> THEN <<RaiseEv("KeyError")>>
    ELSE CodecListEvents(arch_info.codecs[1])

\* lines 48-50 and 58: the first item whose key is the requested architecture
RECURSIVE WalkEvents(_, _)
WalkEvents(items, arch) ==
    IF items = <<>> THEN <<>>
    ELSE IF Head(items).k # arch THEN WalkEvents(Tail(items), arch)
    ELSE ArchEvents(Head(items).v)

(***************************************************************************)
(* run_fluster, lines 9-20.                                                *)
(***************************************************************************)
\* only the vector of index 0 is passed
SkipArgsFirstOnly(skips, index) ==
    IF index >= Len(skips) THEN <<>> ELSE <<"-sv", skips[index + 1]>>

\* lines 15-17: '-sv' goes before the vector of index 0, the others are bare
RECURSIVE SkipArgs(_, _)
SkipArgs(skips, index) ==
    IF index >= Len(skips) THEN <<>>
    ELSE (IF index = 0 THEN <<"-sv", skips[index + 1]>> ELSE <<skips[index + 1]>>)
         \o SkipArgs(skips, index + 1)

\* codec and test suite exchanged
RunFlusterCmdSwapped(codec, test_suite, skips, single_thread) ==
    <<"python3", "/usr/bin/fluster_parser.py", "-ts", codec,
      "-d", "ccdec-" \o test_suite, "-t" \o "300">>
    \o (IF single_thread THEN <<"-j", "1">> ELSE <<>>)
    \o (IF skips # <<>> THEN SkipArgs(skips, 0) ELSE <<>>)

\* lines 11-17; '-t' '300' on line 11 is one string literal, "-t300"
RunFlusterCmd(codec, test_suite, skips, single_thread) ==
    <<"python3", "/usr/bin/fluster_parser.py", "-ts", test_suite,
      "-d", "ccdec-" \o codec, "-t" \o "300">>
    \o (IF single_thread THEN <<"-j", "1">> ELSE <<>>)
    \o (IF skips # <<>> THEN SkipArgs(skips, 0) ELSE <<>>)

\* check=True
FlusterCheckStrict == TRUE

\* line 20: check=False
FlusterCheck == FALSE

\* line 26: subprocess.run without check
WgetCheck == FALSE

\* subprocess.run raises CalledProcessError exactly when check is set and the
\* child's return code is not zero
SubprocessRunRaises(check, returncode) == check /\ returncode # 0

\* Popen without wait: the caller goes on while the child runs
NotAwaited(pid) == TRUE

\* subprocess.run returns only once the child it started has terminated
Awaited(pid) == pid \notin running

\* except OSError
FetchCatchesOSError(exc) ==
    exc \in {"OSError", "FileNotFoundError", "PermissionError"}

\* line 29: except Exception catches every exception class raised in the try
FetchCatches(exc) == exc \in {"OSError", "FileNotFoundError", "PermissionError",
                              "KeyError", "CalledProcessError"}

\* line 27: S_IRWXU | S_IRWXG | S_IRWXO carries the execute bits
ChmodModeExec == TRUE

\* line 28: PATH + ":/opt/cros-codecs"
PathAppended(dirs) == Append(dirs, InstallDir)

WgetPid == 0

(***************************************************************************)
(* State.                                                                  *)
(***************************************************************************)
Init ==
    /\ pc = "fetch"
    /\ args \in [arch : ArchChoices, single : BOOLEAN]
    /\ \E fs \in {<<FALSE, FALSE, FALSE>>, <<TRUE, TRUE, TRUE>>} :
          /\ dirExists = fs[1]
          /\ binExists = fs[2]
          /\ binExec = fs[3]
    /\ PATH \in {<<>>, <<<<"/usr/bin">>>>}
    /\ fetchErr = "none"
    /\ fetchCalls = 1
    /\ installed = FALSE
    /\ running = {}
    /\ lastrc = 0
    /\ config = Unread
    /\ upos = 0
    /\ invoked = <<>>
    /\ failedAt = 0
    /\ uncaught = "none"
    /\ exitStatus = <<>>

\* an exception nothing catches: the traceback, and exit status 1
Die(exc) ==
    /\ pc' = "exit"
    /\ uncaught' = exc
    /\ exitStatus' = <<1>>

\* an exception raised inside the try of retrieve_ccdec
FetchRaise(exc) ==
    /\ fetchErr' = exc
    /\ IF FetchCatches(exc)
       THEN pc' = "fetch_except" /\ UNCHANGED <<uncaught, exitStatus>>
       ELSE Die(exc)

(***************************************************************************)
(* retrieve_ccdec, lines 22-32.                                            *)
(***************************************************************************)
\* lines 24-25
FetchMkdir ==
    /\ pc = "fetch"
    /\ IF dirExists
       THEN pc' = "wget" /\ UNCHANGED <<dirExists, fetchErr, uncaught, exitStatus>>
       ELSE \/ /\ dirExists' = TRUE
               /\ pc' = "wget"
               /\ UNCHANGED <<fetchErr, uncaught, exitStatus>>
            \/ /\ FetchRaise("OSError")
               /\ UNCHANGED dirExists
    /\ UNCHANGED <<args, binExists, binExec, PATH, fetchCalls, installed, running,
                   lastrc, walkVars>>

\* line 26, the spawn: wget starts, or cannot be started
WgetSpawn ==
    /\ pc = "wget"
    /\ \/ /\ running' = running \cup {WgetPid}
          /\ pc' = "wget_wait"
          /\ UNCHANGED <<fetchErr, uncaught, exitStatus>>
       \/ /\ FetchRaise("FileNotFoundError")
          /\ UNCHANGED running
    /\ UNCHANGED <<args, fsVars, PATH, fetchCalls, installed, lastrc, walkVars>>

\* wget terminates.  With status 0 the file is there; otherwise it is as it
\* was, or was created by -O.  A file that was there keeps its mode, a new one
\* is not executable.
WgetExit ==
    /\ WgetPid \in running
    /\ running' = running \ {WgetPid}
    /\ \E rc \in {0, 1} :
          /\ lastrc' = rc
          /\ \E made \in BOOLEAN :
                /\ rc = 0 => made
                /\ binExists' = (binExists \/ made)
    /\ UNCHANGED <<pc, args, dirExists, binExec, PATH, fetchErr, fetchCalls,
                   installed, walkVars, uncaught, exitStatus>>

\* line 26, the return of subprocess.run
WgetReturn ==
    /\ pc = "wget_wait"
    /\ Awaited(WgetPid)
    /\ IF SubprocessRunRaises(WgetCheck, lastrc)
       THEN FetchRaise("CalledProcessError")
       ELSE pc' = "chmod" /\ UNCHANGED <<fetchErr, uncaught, exitStatus>>
    /\ UNCHANGED <<args, fsVars, PATH, fetchCalls, installed, running, lastrc,
                   walkVars>>

\* line 27
Chmod ==
    /\ pc = "chmod"
    /\ IF ~binExists
       THEN FetchRaise("FileNotFoundError") /\ UNCHANGED binExec
       ELSE \/ /\ binExec' = ChmodModeExec
               /\ pc' = "path"
               /\ UNCHANGED <<fetchErr, uncaught, exitStatus>>
            \/ /\ FetchRaise("PermissionError")
               /\ UNCHANGED binExec
    /\ UNCHANGED <<args, dirExists, binExists, PATH, fetchCalls, installed,
                   running, lastrc, walkVars>>

\* line 28
PathUpdate ==
    /\ pc = "path"
    /\ IF PATH = <<>>
       THEN FetchRaise("KeyError") /\ UNCHANGED <<PATH, installed>>
       ELSE /\ PATH' = <<PathAppended(PATH[1])>>
            /\ installed' = (installed \/ lastrc = 0)
            /\ pc' = "fetch_end"
            /\ UNCHANGED <<fetchErr, uncaught, exitStatus>>
    /\ UNCHANGED <<args, fsVars, fetchCalls, running, lastrc, walkVars>>

\* a handler that also removes what the failed fetch may have left
FetchExceptCleanup ==
    /\ pc = "fetch_except"
    /\ pc' = "fetch_end"
    /\ binExists' = FALSE
    /\ binExec' = FALSE
    /\ UNCHANGED <<args, dirExists, PATH, fetchErr, fetchCalls, installed,
                   running, lastrc, walkVars, uncaught, exitStatus>>

\* lines 29-30
FetchExcept ==
    /\ pc = "fetch_except"
    /\ pc' = "fetch_end"
    /\ UNCHANGED <<args, fsVars, PATH, fetchErr, fetchCalls, installed, running,
                   lastrc, walkVars, uncaught, exitStatus>>

\* line 32 and the return to line 43; the locals, and with them the
\* CompletedProcess of line 26, are gone
FetchEnd ==
    /\ pc = "fetch_end"
    /\ pc' = "load"
    /\ lastrc' = 0
    /\ UNCHANGED <<args, fsVars, PATH, fetchErr, fetchCalls, installed, running,
                   walkVars, uncaught, exitStatus>>

(***************************************************************************)
(* The main program, lines 45-61.                                          *)
(***************************************************************************)
\* lines 45-47 and 60-61: open, yaml.safe_load, config.items()
Load ==
    /\ pc = "load"
    /\ \E f \in ConfigFiles :
          /\ config' = f
          /\ CASE f.kind = "missing" -> Die("FileNotFoundError")
               [] f.kind = "malformed" ->
                     pc' = "exit" /\ exitStatus' = <<0>> /\ UNCHANGED uncaught
               [] f.kind = "empty" -> Die("AttributeError")
               [] OTHER -> pc' = "walk" /\ UNCHANGED <<uncaught, exitStatus>>
    /\ UNCHANGED <<args, fsVars, PATH, fetchErr, fetchCalls, installed, running,
                   lastrc, upos, invoked, failedAt>>

\* lines 48-58: the next thing the walk does.  A call of run_fluster builds
\* the command and spawns it (lines 10-20).
WalkStep ==
    /\ pc = "walk"
    /\ LET events == WalkEvents(config.map, args.arch)
       IN  IF upos >= Len(events)
           THEN /\ pc' = "exit"
                /\ exitStatus' = <<0>>
                /\ UNCHANGED <<uncaught, upos, invoked, running>>
           ELSE LET ev == events[upos + 1]
                IN  IF ev.op = "raise"
                    THEN Die(ev.exc) /\ UNCHANGED <<upos, invoked, running>>
                    ELSE /\ invoked' = Append(invoked,
                                RunFlusterCmd(ev.codec, ev.test_suite, ev.skips,
                                              args.single))
                         /\ running' = running \cup {Len(invoked) + 1}
                         /\ upos' = upos + 1
                         /\ pc' = "run_wait"
                         /\ UNCHANGED <<uncaught, exitStatus>>
    /\ UNCHANGED <<args, fsVars, PATH, fetchErr, fetchCalls, installed, lastrc,
                   config, failedAt>>

\* the conformance tool terminates, with any status
FlusterExit ==
    /\ \E p \in running \ {WgetPid} :
          /\ running' = running \ {p}
          /\ \E rc \in {0, 1} : lastrc' = rc
    /\ UNCHANGED <<pc, args, fsVars, PATH, fetchErr, fetchCalls, installed,
                   walkVars, uncaught, exitStatus>>

\* line 20, the return of subprocess.run and then of run_fluster, which
\* drops the CompletedProcess
RunReturn ==
    /\ pc = "run_wait"
    /\ Awaited(Len(invoked))
    /\ failedAt' = IF lastrc # 0 /\ failedAt = 0 THEN Len(invoked) ELSE failedAt
    /\ lastrc' = 0
    /\ IF SubprocessRunRaises(FlusterCheck, lastrc)
       THEN Die("CalledProcessError")
       ELSE pc' = "walk" /\ UNCHANGED <<uncaught, exitStatus>>
    /\ UNCHANGED <<args, fsVars, PATH, fetchErr, fetchCalls, installed, running,
                   config, upos, invoked>>

Next ==
    \/ FetchMkdir
    \/ WgetSpawn
    \/ WgetExit
    \/ WgetReturn
    \/ Chmod
    \/ PathUpdate
    \/ FetchExcept
    \/ FetchEnd
    \/ Load
    \/ WalkStep
    \/ FlusterExit
    \/ RunReturn

Spec == Init /\ [][Next]_vars

\* retrieve_ccdec is called again by the same process
Reinvoke ==
    /\ pc = "load"
    /\ fetchCalls < MaxFetchCalls
    /\ pc' = "fetch"
    /\ fetchCalls' = fetchCalls + 1
    /\ fetchErr' = "none"
    /\ UNCHANGED <<args, fsVars, PATH, installed, running, lastrc, walkVars,
                   uncaught, exitStatus>>

NextTwice ==
    \/ FetchMkdir
    \/ WgetSpawn
    \/ WgetExit
    \/ WgetReturn
    \/ Chmod
    \/ PathUpdate
    \/ FetchExcept
    \/ FetchEnd
    \/ Reinvoke

SpecTwice == Init /\ [][NextTwice]_vars

(***************************************************************************)
(* What the document declares, read off the document itself.               *)
(***************************************************************************)
\* the entry of the requested architecture, if the mapping has one
Entry(map, arch) ==
    LET I == {i \in 1..Len(map) : map[i].k = arch}
    IN  IF I = {} THEN <<>> ELSE <<map[Min(I)].v>>

\* every required key of the entry is there
ValidInfo(info) ==
    /\ info.device_type # <<>>
    /\ info.codecs # <<>>
    /\ \A c \in Range(info.codecs[1]) : \A ci \in Range(c) :
          /\ ci.v.test_suites # <<>>
          /\ \A ts \in Range(ci.v.test_suites[1]) : \A ti \in Range(ts) :
                ti.v.skip_vectors # <<>>

\* the test suites of a valid entry, in declaration order
Declared(info) ==
    LET cs == info.codecs[1]
    IN  Flatten([c \in 1..Len(cs) |->
          Flatten([ci \in 1..Len(cs[c]) |->
            LET l == cs[c][ci].v.test_suites[1]
            IN  Flatten([s \in 1..Len(l) |->
                  [ti \in 1..Len(l[s]) |->
                     [codec |-> cs[c][ci].k,
                      test_suite |-> l[s][ti].k,
                      skips |-> l[s][ti].v.skip_vectors[1]]]])])])

ValidConfig ==
    /\ config.kind = "map"
    /\ LET e == Entry(config.map, args.arch)
       IN  e # <<>> => ValidInfo(e[1])

DeclaredUnits ==
    LET e == Entry(config.map, args.arch)
    IN  IF e = <<>> THEN <<>> ELSE Declared(e[1])

\* reading an invocation back: the value that follows a flag, if the flag is there
ArgAfter(cmd, flag) ==
    LET I == {i \in 1..(Len(cmd) - 1) : cmd[i] = flag}
    IN  IF I = {} THEN <<>> ELSE <<cmd[Min(I) + 1]>>

\* the values that follow the skip flag
SkipValues(cmd) ==
    LET I == {i \in 1..Len(cmd) : cmd[i] = "-sv"}
    IN  IF I = {} THEN {} ELSE {cmd[i] : i \in (Min(I) + 1)..Len(cmd)}

VectorNames == Range(VectorPool) \cup {"v9"}

\* invocation i is for declared unit i, and there is one for each
InvokedAsDeclared ==
    LET D == DeclaredUnits
    IN  /\ Len(invoked) = Len(D)
        /\ \A i \in 1..Len(invoked) :
              /\ ArgAfter(invoked[i], "-ts") = <<D[i].test_suite>>
              /\ ArgAfter(invoked[i], "-d") = <<"ccdec-" \o D[i].codec>>

LoadFailed == config.kind \in {"missing", "malformed", "empty"}

SchemaInvalid == config.kind = "map" /\ ~ValidConfig

OnSearchPath == PATH # <<>> /\ InstallDir \in Range(PATH[1])

(***************************************************************************)
(* The claims.                                                             *)
(***************************************************************************)
\* C1: with a valid config, a finished run has issued exactly one invocation
\* per test suite declared under the requested architecture, in declaration
\* order (codecs, then suites), and none when the architecture is absent.
C1_OneInvocationPerDeclaredSuite ==
    (pc = "exit" /\ ValidConfig) => InvokedAsDeclared

C1_Witness ==
    /\ pc = "exit"
    /\ ValidConfig
    /\ Len(invoked) >= 2
    /\ ArgAfter(invoked[1], "-d") # ArgAfter(invoked[2], "-d")

\* C2: a unit that returns a non-zero status stops nothing: the run still
\* ends normally with every declared suite attempted exactly once.
C2_NonZeroStatusDoesNotStopTheRun ==
    (pc = "exit" /\ ValidConfig /\ failedAt # 0)
        => /\ uncaught = "none"
           /\ Len(invoked) = Len(DeclaredUnits)

C2_Witness ==
    /\ pc = "exit"
    /\ ValidConfig
    /\ failedAt = 1
    /\ Len(invoked) >= 2

\* C3: when the document cannot be loaded (no file, not well-formed, or
\* schema-invalid for the requested architecture) the process ends with a
\* non-zero exit status.
C3_LoadFailureExitsNonZero ==
    (pc = "exit" /\ (LoadFailed \/ SchemaInvalid)) => exitStatus # <<0>>

\* C4: an entry of the requested architecture without device_type aborts the
\* run before any invocation.
C4_MissingDeviceTypeAbortsBeforeAnyInvocation ==
    LET e == Entry(config.map, args.arch)
    IN  (config.kind = "map" /\ e # <<>> /\ e[1].device_type = <<>>)
            => /\ invoked = <<>>
               /\ pc = "exit" => (uncaught = "KeyError" /\ exitStatus = <<1>>)

C4_Witness ==
    /\ pc = "exit"
    /\ config.kind = "map"
    /\ Entry(config.map, args.arch) # <<>>
    /\ LET e == Entry(config.map, args.arch)[1]
       IN  /\ e.device_type = <<>>
           /\ ValidInfo([e EXCEPT !.device_type = <<"x">>])
           /\ Len(Declared(e)) >= 1
    /\ invoked = <<>>

\* C5: a required field missing anywhere under the requested architecture
\* means no invocation at all in that run.
C5_SchemaErrorMeansNoInvocation ==
    SchemaInvalid => invoked = <<>>

\* C6: the invocation just issued for a unit carries exactly the skip vectors
\* the document declares for it, and neither the skip flag nor any vector when
\* that list is empty.  (Every invocation is issued by the step that enters
\* run_wait, so this covers each of them.)
C6_SkipVectorsPassedExactly ==
    (pc = "run_wait" /\ ValidConfig) =>
        LET cmd == invoked[Len(invoked)]
            sk == DeclaredUnits[Len(invoked)].skips
        IN  /\ SkipValues(cmd) = Range(sk)
            /\ Range(cmd) \cap VectorNames = Range(sk)
            /\ sk = <<>> => "-sv" \notin Range(cmd)

C6_Witness ==
    /\ pc = "run_wait"
    /\ ValidConfig
    /\ Len(invoked) = 2
    /\ DeclaredUnits[1].skips = <<>>
    /\ DeclaredUnits[2].skips = <<"v1", "v2">>
    /\ "v2" \in SkipValues(invoked[2])

\* C7: a failure inside retrieve_ccdec does not end the run: the config is
\* loaded all the same and, if valid, every declared suite is invoked.
C7_FetchFailureDoesNotAbort ==
    (pc = "exit" /\ fetchErr # "none")
        => /\ config # Unread
           /\ ValidConfig => InvokedAsDeclared

C7_Witness ==
    /\ pc = "exit"
    /\ fetchErr # "none"
    /\ ValidConfig
    /\ Len(invoked) >= 2

C9_DecoderAndSuiteArguments ==
    pc = "run_wait" =>
        LET cmd == invoked[Len(invoked)]
            ev == WalkEvents(config.map, args.arch)[Len(invoked)]
        IN  /\ ArgAfter(cmd, "-d") = <<"ccdec-" \o ev.codec>>
            /\ ArgAfter(cmd, "-ts") = <<ev.test_suite>>

C9_Witness ==
    /\ pc = "run_wait"
    /\ Len(invoked) = 2
    /\ ArgAfter(invoked[1], "-d") = <<"ccdec-vp9">>
    /\ ArgAfter(invoked[2], "-d") = <<"ccdec-av1">>

\* C10: at most one child process runs at a time, a child is started only
\* when none runs, and the search path changes only in the fetch step, before
\* the first invocation.
C10_StrictlySequential ==
    [][/\ Cardinality(running') <= 1
       /\ running' \ running # {} => running = {}
       /\ PATH' # PATH => (pc = "path" /\ invoked = <<>>)]_vars

C10_Witness ==
    /\ Len(invoked) >= 2
    /\ running = {2}
    /\ OnSearchPath

====
